---- MODULE Spec2Model ----
(***************************************************************************)
(* Model of the HTTP facade of the repository: keypair generation, message *)
(* signing and verification, and the four instruction builders.  Strings   *)
(* are sequences of byte values (their UTF-8 / ASCII codes), byte vectors  *)
(* are sequences of 0..255.  A request arrives, its handler runs as one     *)
(* action that produces the response, the instruction the ledger library   *)
(* constructed for it (if any) and the list of library routines it         *)
(* invoked, and the exchange ends: nothing is kept between requests.       *)
(***************************************************************************)
EXTENDS Integers, Sequences, FiniteSets, TLC

VARIABLES pc, endpoint, req, resp, ix, calls

vars == <<pc, endpoint, req, resp, ix, calls>>

(***************************************************************************)
(* Bounds of the model.                                                    *)
(***************************************************************************)
\* how many keys of the key table the requests and the entropy source use
NumKeys == 3
\* how many messages of the message table the requests use
NumMsgs == 2
\* amounts and lamports range over 0..MaxAmount
MaxAmount == 2

(***************************************************************************)
(* Program constants.                                                      *)
(***************************************************************************)
SECRET_KEY_LENGTH == 32
PUBLIC_KEY_LENGTH == 32
KEYPAIR_LENGTH == 64
SIGNATURE_LENGTH == 64
MAX_BASE58_LEN == 44
OK == 200
BAD_REQUEST == 400
INTERNAL_SERVER_ERROR == 500

(***************************************************************************)
(* Ed25519 test data.  The signing primitive is an external library; its   *)
(* behaviour on the keys and messages of the model is tabulated from the   *)
(* RFC 8032 reference algorithm: PublicTable[k] is the public key derived  *)
(* from SeedTable[k], SignatureTable[k][m] the signature of                *)
(* MessageTable[m] under key k.  Key 1 is RFC 8032 test vector 1; seed 2   *)
(* starts with two zero bytes.                                             *)
(***************************************************************************)
SeedTable ==
  <<
    <<157, 97, 177, 157, 239, 253, 90, 96, 186, 132, 74, 244, 146, 236, 44, 196, 68, 73, 197, 105, 123, 50, 105, 25, 112, 59, 172, 3, 28, 174, 127, 96>>,
    <<0, 0, 1, 2, 3, 4, 5, 6, 7, 8, 9, 10, 11, 12, 13, 14, 15, 16, 17, 18, 19, 20, 21, 22, 23, 24, 25, 26, 27, 28, 29, 30>>,
    <<42, 42, 42, 42, 42, 42, 42, 42, 42, 42, 42, 42, 42, 42, 42, 42, 42, 42, 42, 42, 42, 42, 42, 42, 42, 42, 42, 42, 42, 42, 42, 42>>,
    <<255, 254, 253, 252, 251, 250, 249, 248, 247, 246, 245, 244, 243, 242, 241, 240, 239, 238, 237, 236, 235, 234, 233, 232, 231, 230, 229, 228, 227, 226, 225, 224>> >>

PublicTable ==
  <<
    <<215, 90, 152, 1, 130, 177, 10, 183, 213, 75, 254, 211, 201, 100, 7, 58, 14, 225, 114, 243, 218, 166, 35, 37, 175, 2, 26, 104, 247, 7, 81, 26>>,
    <<201, 85, 116, 5, 7, 192, 115, 15, 110, 205, 153, 7, 220, 169, 47, 66, 192, 60, 230, 151, 64, 27, 117, 237, 16, 228, 74, 224, 247, 219, 24, 167>>,
    <<25, 127, 107, 35, 225, 108, 133, 50, 198, 171, 200, 56, 250, 205, 94, 167, 137, 190, 12, 118, 178, 146, 3, 52, 3, 155, 250, 139, 61, 54, 141, 97>>,
    <<186, 252, 113, 190, 173, 58, 197, 228, 182, 62, 156, 130, 22, 238, 113, 163, 74, 174, 198, 87, 34, 238, 219, 202, 114, 139, 78, 155, 60, 204, 227, 150>> >>

MessageTable ==
  <<
    <<104, 101, 108, 108, 111>>,
    <<104, 101, 108, 108, 112>>,
    <<97>> >>

SignatureTable ==
  <<
    << <<81, 28, 164, 151, 196, 212, 39, 11, 9, 139, 26, 253, 90, 228, 227, 185, 81, 165, 218, 44, 157, 166, 233, 192, 82, 143, 87, 97, 136, 54, 118, 231, 223, 110, 76, 15, 14, 27, 90, 10, 68, 68, 244, 41, 139, 24, 130, 221, 130, 47, 177, 19, 60, 189, 73, 171, 251, 153, 108, 135, 205, 91, 133, 6>>,
       <<118, 165, 240, 89, 207, 33, 52, 219, 55, 146, 86, 225, 42, 184, 123, 144, 209, 130, 104, 227, 251, 255, 200, 205, 188, 8, 145, 111, 132, 218, 148, 101, 172, 156, 235, 86, 208, 67, 177, 20, 248, 213, 170, 76, 130, 185, 84, 18, 190, 12, 210, 245, 22, 164, 38, 120, 164, 41, 5, 210, 31, 42, 33, 1>>,
       <<220, 217, 67, 226, 54, 71, 65, 26, 227, 207, 189, 193, 13, 16, 72, 11, 39, 55, 79, 164, 196, 131, 134, 56, 143, 3, 52, 254, 110, 114, 57, 39, 25, 169, 7, 233, 61, 64, 255, 158, 15, 226, 132, 143, 157, 96, 35, 214, 96, 203, 147, 201, 246, 107, 222, 13, 149, 175, 96, 10, 157, 158, 243, 15>> >>,
    << <<158, 235, 81, 253, 29, 185, 81, 82, 87, 100, 56, 180, 232, 229, 152, 136, 58, 1, 76, 223, 194, 246, 234, 154, 30, 255, 110, 224, 208, 144, 216, 79, 201, 21, 43, 102, 69, 17, 51, 77, 214, 141, 211, 89, 76, 90, 162, 100, 222, 170, 90, 42, 63, 104, 186, 204, 171, 1, 60, 207, 67, 201, 179, 6>>,
       <<218, 158, 239, 132, 39, 70, 217, 6, 207, 202, 15, 211, 43, 236, 63, 226, 228, 42, 255, 94, 225, 62, 115, 154, 199, 207, 70, 69, 85, 57, 110, 170, 252, 155, 79, 126, 121, 13, 216, 45, 207, 41, 134, 63, 118, 254, 176, 67, 194, 46, 53, 168, 75, 158, 176, 180, 112, 45, 74, 123, 170, 131, 198, 14>>,
       <<90, 66, 114, 65, 216, 98, 228, 55, 130, 88, 12, 131, 119, 239, 212, 231, 236, 24, 57, 208, 236, 67, 245, 158, 129, 23, 133, 232, 194, 251, 186, 182, 4, 238, 53, 36, 85, 96, 212, 207, 39, 218, 111, 111, 26, 191, 132, 162, 241, 42, 191, 69, 168, 226, 155, 18, 204, 4, 216, 224, 201, 172, 9, 10>> >>,
    << <<132, 67, 187, 16, 7, 117, 116, 238, 118, 93, 139, 101, 133, 203, 89, 11, 58, 111, 137, 81, 51, 109, 55, 1, 140, 86, 70, 181, 97, 141, 245, 2, 7, 188, 43, 69, 141, 220, 250, 238, 20, 202, 70, 248, 155, 181, 129, 196, 184, 149, 18, 2, 246, 160, 168, 68, 32, 24, 221, 88, 130, 175, 99, 6>>,
       <<12, 144, 60, 110, 148, 117, 142, 233, 97, 211, 220, 103, 202, 18, 200, 37, 41, 101, 31, 89, 154, 218, 24, 241, 233, 217, 85, 225, 194, 19, 40, 98, 85, 78, 136, 123, 132, 34, 89, 51, 219, 247, 46, 6, 223, 27, 173, 1, 214, 46, 116, 200, 127, 228, 117, 108, 10, 223, 165, 202, 184, 221, 96, 6>>,
       <<42, 121, 20, 197, 184, 229, 15, 5, 243, 158, 1, 171, 213, 65, 184, 77, 125, 112, 120, 116, 134, 60, 122, 158, 93, 133, 111, 5, 78, 193, 118, 3, 40, 149, 72, 125, 49, 94, 138, 68, 15, 69, 58, 84, 141, 7, 125, 180, 216, 22, 120, 147, 64, 102, 58, 127, 205, 230, 170, 151, 230, 115, 198, 10>> >>,
    << <<90, 66, 104, 116, 35, 24, 236, 17, 60, 136, 251, 55, 183, 180, 168, 211, 68, 24, 206, 32, 88, 213, 230, 210, 92, 104, 24, 103, 138, 182, 97, 171, 40, 97, 30, 85, 10, 212, 125, 120, 223, 161, 190, 27, 167, 78, 123, 89, 98, 88, 46, 130, 231, 145, 197, 27, 221, 77, 123, 153, 156, 77, 104, 14>>,
       <<175, 120, 203, 106, 206, 100, 85, 255, 50, 206, 92, 73, 100, 75, 159, 41, 107, 73, 113, 65, 75, 73, 17, 57, 69, 10, 46, 244, 60, 53, 183, 211, 227, 132, 162, 30, 227, 21, 168, 203, 193, 134, 154, 47, 211, 7, 100, 176, 238, 14, 29, 73, 97, 246, 16, 76, 225, 97, 51, 180, 221, 120, 137, 14>>,
       <<131, 189, 3, 113, 49, 162, 108, 50, 208, 249, 167, 175, 42, 231, 50, 40, 126, 121, 129, 90, 100, 146, 121, 137, 71, 163, 218, 208, 215, 70, 165, 196, 58, 30, 13, 158, 255, 37, 162, 234, 47, 151, 31, 106, 13, 0, 158, 76, 232, 152, 157, 171, 247, 160, 239, 123, 141, 208, 62, 76, 145, 87, 234, 8>> >> >>

(***************************************************************************)
(* Byte helpers.                                                           *)
(***************************************************************************)
Reverse(s) == [i \in 1..Len(s) |-> s[Len(s) + 1 - i]]

Repeat(b, n) == [i \in 1..n |-> b]

\* number of leading elements of s that equal z
LeadingCount(s, z) ==
  LET others == {i \in 1..Len(s) : s[i] # z}
  IN  IF others = {} THEN Len(s)
      ELSE (CHOOSE i \in others : \A j \in others : i <= j) - 1

\* 2^n for the bit positions of a byte
Pow2(n) == CASE n = 0 -> 1 [] n = 1 -> 2 [] n = 2 -> 4 [] n = 3 -> 8
             [] n = 4 -> 16 [] n = 5 -> 32 [] n = 6 -> 64 [] n = 7 -> 128

\* b with bit n (0 = least significant) inverted
FlipByteBit(b, n) ==
  IF (b \div Pow2(n)) % 2 = 1 THEN b - Pow2(n) ELSE b + Pow2(n)

\* bytes with bit k inverted, bits numbered from the first byte's low bit
FlipBit(bytes, k) ==
  [bytes EXCEPT ![(k \div 8) + 1] = FlipByteBit(bytes[(k \div 8) + 1], k % 8)]

\* little-endian encoding of n on w bytes (to_le_bytes)
RECURSIVE LeBytes(_, _)
LeBytes(n, w) == IF w = 0 THEN <<>> ELSE <<n % 256>> \o LeBytes(n \div 256, w - 1)

(***************************************************************************)
(* Base-58 (crate bs58, Bitcoin alphabet).                                 *)
(***************************************************************************)
\* "123456789ABCDEFGHJKLMNPQRSTUVWXYZabcdefghijkmnopqrstuvwxyz"
B58Alphabet ==
  <<49, 50, 51, 52, 53, 54, 55, 56, 57, 65, 66, 67, 68, 69, 70, 71, 72, 74,
    75, 76, 77, 78, 80, 81, 82, 83, 84, 85, 86, 87, 88, 89, 90, 97, 98, 99,
    100, 101, 102, 103, 104, 105, 106, 107, 109, 110, 111, 112, 113, 114,
    115, 116, 117, 118, 119, 120, 121, 122>>

B58Base == Len(B58Alphabet)

InB58Alphabet(c) == \E i \in 1..B58Base : B58Alphabet[i] = c

\* the digit value of an alphabet character
B58Digit(c) == (CHOOSE i \in 1..B58Base : B58Alphabet[i] = c) - 1

RECURSIVE MulAddRange(_, _, _, _, _, _)
\* the inner loop of bs58's encode_into / decode_into over digs[lo..hi]
\* (little-endian digits in base `base`): every digit d becomes
\* (d * mul + carry) % base and hands (d * mul + carry) \div base on.  The
\* range is split in halves, the carry running from the lower into the upper.
MulAddRange(digs, lo, hi, carry, mul, base) ==
  IF lo > hi THEN [out |-> <<>>, carry |-> carry]
  ELSE IF lo = hi
  THEN LET c == carry + digs[lo] * mul
       IN  [out |-> <<c % base>>, carry |-> c \div base]
  ELSE LET mid   == (lo + hi) \div 2
           lower == MulAddRange(digs, lo, mid, carry, mul, base)
           upper == MulAddRange(digs, mid + 1, hi, lower.carry, mul, base)
       IN  [out |-> lower.out \o upper.out, carry |-> upper.carry]

RECURSIVE CarryDigits(_, _)
\* while carry > 0 { push carry % base; carry /= base }
CarryDigits(carry, base) ==
  IF carry = 0 THEN <<>>
  ELSE <<carry % base>> \o CarryDigits(carry \div base, base)

\* one input symbol: digs becomes digs * mul + val
MulAdd(digs, val, mul, base) ==
  LET pass == MulAddRange(digs, 1, Len(digs), val, mul, base)
  IN  pass.out \o CarryDigits(pass.carry, base)

RECURSIVE BaseConvert(_, _, _, _, _, _)
\* the outer loop: feed input[lo..hi], in order, into the accumulator digs
BaseConvert(input, lo, hi, digs, mul, base) ==
  IF lo > hi THEN digs
  ELSE IF lo = hi THEN MulAdd(digs, input[lo], mul, base)
  ELSE LET mid   == (lo + hi) \div 2
           lower == BaseConvert(input, lo, mid, digs, mul, base)
       IN  \* the lower half is completed before the upper half starts
           IF Len(lower) >= 0
           THEN BaseConvert(input, mid + 1, hi, lower, mul, base)
           ELSE lower

\* bs58::encode(bytes).into_string()
bs58_encode(bytes) ==
  LET digs  == BaseConvert(bytes, 1, Len(bytes), <<>>, 256, B58Base)
      zeros == Repeat(0, LeadingCount(bytes, 0))
      all   == Reverse(digs \o zeros)
  IN  [i \in 1..Len(all) |-> B58Alphabet[all[i] + 1]]

\* bs58::decode(text).into_vec(): Err on a character outside the alphabet
bs58_decode(text) ==
  IF \E i \in 1..Len(text) : ~InB58Alphabet(text[i])
  THEN [ok |-> FALSE, err |-> "InvalidCharacter"]
  ELSE LET vals  == [i \in 1..Len(text) |-> B58Digit(text[i])]
           bytes == BaseConvert(vals, 1, Len(vals), <<>>, B58Base, 256)
           zeros == Repeat(0, LeadingCount(text, B58Alphabet[1]))
       IN  [ok |-> TRUE, val |-> Reverse(bytes \o zeros)]

(***************************************************************************)
(* Base-64 (crate base64, engine STANDARD: standard alphabet, canonical    *)
(* padding required, non-zero trailing bits rejected).                     *)
(***************************************************************************)
PAD_BYTE == 61

\* the character of a 6-bit value: A-Z a-z 0-9 + /
B64Char(v) ==
  IF v < 26 THEN 65 + v
  ELSE IF v < 52 THEN 97 + (v - 26)
  ELSE IF v < 62 THEN 48 + (v - 52)
  ELSE IF v = 62 THEN 43 ELSE 47

InB64Alphabet(c) ==
  \/ c \in 65..90
  \/ c \in 97..122
  \/ c \in 48..57
  \/ c = 43
  \/ c = 47

\* the 6-bit value of an alphabet character
B64Value(c) ==
  IF c \in 65..90 THEN c - 65
  ELSE IF c \in 97..122 THEN c - 97 + 26
  ELSE IF c \in 48..57 THEN c - 48 + 52
  ELSE IF c = 43 THEN 62 ELSE 63

\* base64_engine.encode(bytes)
base64_encode(bytes) ==
  LET n      == Len(bytes)
      groups == (n + 2) \div 3
      at(i)  == IF i <= n THEN bytes[i] ELSE 0
      quad(g) == (at(3 * g - 2) * 256 + at(3 * g - 1)) * 256 + at(3 * g)
      sym(g, j) == CASE j = 1 -> quad(g) \div 262144
                     [] j = 2 -> (quad(g) \div 4096) % 64
                     [] j = 3 -> (quad(g) \div 64) % 64
                     [] j = 4 -> quad(g) % 64
      \* symbols that carry data: 4 per full group, 2 or 3 in a short last one
      used   == (4 * n + 2) \div 3
  IN  [i \in 1..(4 * groups) |->
         IF i <= used THEN B64Char(sym(((i - 1) \div 4) + 1, ((i - 1) % 4) + 1))
         ELSE PAD_BYTE]

\* base64_engine.decode(text)
base64_decode(text) ==
  LET n    == Len(text)
      pads == IF n >= 2 /\ text[n] = PAD_BYTE /\ text[n - 1] = PAD_BYTE THEN 2
              ELSE IF n >= 1 /\ text[n] = PAD_BYTE THEN 1 ELSE 0
      syms == n - pads
      val(i) == IF i <= syms THEN B64Value(text[i]) ELSE 0
      quad(g) == ((val(4 * g - 3) * 64 + val(4 * g - 2)) * 64 + val(4 * g - 1)) * 64
                 + val(4 * g)
      nbytes == (3 * (n \div 4)) - pads
      byte(i) == LET g == ((i - 1) \div 3) + 1
                     j == ((i - 1) % 3) + 1
                 IN  CASE j = 1 -> quad(g) \div 65536
                       [] j = 2 -> (quad(g) \div 256) % 256
                       [] j = 3 -> quad(g) % 256
  IN  IF n % 4 = 1
      THEN [ok |-> FALSE, err |-> "InvalidLength"]
      ELSE IF \E i \in 1..syms : ~InB64Alphabet(text[i])
      THEN [ok |-> FALSE, err |-> "InvalidByte"]
      ELSE IF n % 4 # 0
      THEN [ok |-> FALSE, err |-> "InvalidPadding"]
      ELSE IF \/ (pads = 1 /\ B64Value(text[syms]) % 4 # 0)
              \/ (pads = 2 /\ B64Value(text[syms]) % 16 # 0)
      THEN [ok |-> FALSE, err |-> "InvalidLastSymbol"]
      ELSE [ok |-> TRUE, val |-> [i \in 1..nbytes |-> byte(i)]]

(***************************************************************************)
(* Results of fallible library calls.                                      *)
(***************************************************************************)
Ok(v) == [ok |-> TRUE, val |-> v]

Err(e) == [ok |-> FALSE, err |-> e]

(***************************************************************************)
(* Ed25519 (crate ed25519_dalek), on the tabulated keys and messages.      *)
(***************************************************************************)
KeyIndex == 1..Len(SeedTable)

MsgIndex == 1..Len(MessageTable)

\* PublicKey::from(&SecretKey): the public key derived from a seed
DerivePublic(seed) ==
  PublicTable[CHOOSE k \in KeyIndex : SeedTable[k] = seed]

\* CompressedEdwardsY::decompress succeeds: the 32 bytes encode a curve point.
\* The byte strings the model offers as public keys are the tabulated public
\* keys (points) and NotAPoint (y = 2, for which x^2 has no square root).
IsCurvePoint(bytes) == \E k \in KeyIndex : PublicTable[k] = bytes

NotAPoint == <<2>> \o Repeat(0, PUBLIC_KEY_LENGTH - 1)

\* PublicKey::from_bytes
PublicKey_from_bytes(bytes) ==
  IF Len(bytes) # PUBLIC_KEY_LENGTH THEN Err("BytesLengthError")
  ELSE IF ~IsCurvePoint(bytes) THEN Err("PointDecompressionError")
  ELSE Ok(bytes)

\* SecretKey::from_bytes
SecretKey_from_bytes(bytes) ==
  IF Len(bytes) # SECRET_KEY_LENGTH THEN Err("BytesLengthError") ELSE Ok(bytes)

\* Keypair::from_bytes: takes the 64-byte form secret || public, nothing else
Keypair_from_bytes(bytes) ==
  IF Len(bytes) # KEYPAIR_LENGTH THEN Err("BytesLengthError")
  ELSE LET secret == SecretKey_from_bytes(SubSeq(bytes, 1, SECRET_KEY_LENGTH))
           public == PublicKey_from_bytes(SubSeq(bytes, SECRET_KEY_LENGTH + 1, KEYPAIR_LENGTH))
       IN  IF ~secret.ok THEN secret
           ELSE IF ~public.ok THEN public
           ELSE Ok([secret |-> secret.val, public |-> public.val])

\* Keypair::generate(&mut csprng), seed being the 32 bytes the entropy source gave
Keypair_generate(seed) == [secret |-> seed, public |-> DerivePublic(seed)]

\* the two halves of the combined form in the wrong order
Keypair_to_bytes_public_first(kp) == kp.public \o kp.secret

\* Keypair::to_bytes: secret || public
Keypair_to_bytes(kp) == kp.secret \o kp.public

\* Signature::from_bytes: 64 bytes whose scalar has its three highest bits unset
Signature_from_bytes(bytes) ==
  IF Len(bytes) # SIGNATURE_LENGTH THEN Err("BytesLengthError")
  ELSE IF bytes[SIGNATURE_LENGTH] \div 32 # 0 THEN Err("ScalarFormatError")
  ELSE Ok(bytes)

\* Keypair::sign(message): the deterministic signature of the raw message bytes
Keypair_sign(kp, message) ==
  LET k == CHOOSE k \in KeyIndex : SeedTable[k] = kp.secret /\ PublicTable[k] = kp.public
      m == CHOOSE m \in MsgIndex : MessageTable[m] = message
  IN  SignatureTable[k][m]

\* a verification that does not bind the signature to the message
PublicKey_verify_any_message(public, message, signature) ==
  \E k \in KeyIndex : \E m \in MsgIndex :
     /\ PublicTable[k] = public
     /\ SignatureTable[k][m] = signature

\* PublicKey::verify(message, signature).is_ok()
PublicKey_verify(public, message, signature) ==
  \E k \in KeyIndex : \E m \in MsgIndex :
     /\ PublicTable[k] = public
     /\ MessageTable[m] = message
     /\ SignatureTable[k][m] = signature

(***************************************************************************)
(* The ledger libraries (solana_program, spl_token).                       *)
(***************************************************************************)
\* "TokenkegQfeZyiNwAJbNbGKPFXCWuBvf9Ss623VQ5DA"
TOKEN_PROGRAM_TEXT ==
  <<84, 111, 107, 101, 110, 107, 101, 103, 81, 102, 101, 90, 121, 105, 78,
    119, 65, 74, 98, 78, 98, 71, 75, 80, 70, 88, 67, 87, 117, 66, 118, 102,
    57, 83, 115, 54, 50, 51, 86, 81, 53, 68, 65>>

\* "SysvarRent111111111111111111111111111111111"
RENT_SYSVAR_TEXT ==
  <<83, 121, 115, 118, 97, 114, 82, 101, 110, 116>> \o Repeat(49, 33)

\* "11111111111111111111111111111111"
SYSTEM_PROGRAM_TEXT == Repeat(49, 32)

\* spl_token::id()
spl_token_id == bs58_decode(TOKEN_PROGRAM_TEXT).val

\* sysvar::rent::id()
rent_sysvar_id == bs58_decode(RENT_SYSVAR_TEXT).val

\* system_program::id()
system_program_id == bs58_decode(SYSTEM_PROGRAM_TEXT).val

\* a parse that fits whatever decodes into 32 bytes, cutting or zero-filling
Pubkey_from_str_fitted(s) ==
  LET v == bs58_decode(s)
  IN  IF ~v.ok THEN Err("Invalid")
      ELSE Ok([i \in 1..PUBLIC_KEY_LENGTH |->
                 IF i <= Len(v.val) THEN v.val[i] ELSE 0])

\* <Pubkey as FromStr>::from_str
Pubkey_from_str(s) ==
  IF Len(s) > MAX_BASE58_LEN THEN Err("WrongSize")
  ELSE LET v == bs58_decode(s)
       IN  IF ~v.ok THEN Err("Invalid")
           ELSE IF Len(v.val) # PUBLIC_KEY_LENGTH THEN Err("WrongSize")
           ELSE Ok(v.val)

\* Pubkey::to_string
Pubkey_to_string(pk) == bs58_encode(pk)

\* AccountMeta::new(pubkey, is_signer)
AccountMeta_new(pubkey, is_signer) ==
  [pubkey |-> pubkey, is_signer |-> is_signer, is_writable |-> TRUE]

\* AccountMeta::new_readonly(pubkey, is_signer)
AccountMeta_new_readonly(pubkey, is_signer) ==
  [pubkey |-> pubkey, is_signer |-> is_signer, is_writable |-> FALSE]

\* the accounts a token instruction appends for its multisig signers
SignerMetas(signer_pubkeys) ==
  [i \in 1..Len(signer_pubkeys) |-> AccountMeta_new_readonly(signer_pubkeys[i], TRUE)]

\* spl_token::check_program_account
check_program_account(program_id) ==
  IF program_id # spl_token_id THEN Err("IncorrectProgramId") ELSE Ok(TRUE)

\* spl_token::instruction::initialize_mint, freeze authority None
initialize_mint(token_program_id, mint_pubkey, mint_authority_pubkey, decimals) ==
  IF ~check_program_account(token_program_id).ok
  THEN check_program_account(token_program_id)
  ELSE Ok([program_id |-> token_program_id,
           accounts   |-> <<AccountMeta_new(mint_pubkey, FALSE),
                            AccountMeta_new_readonly(rent_sysvar_id, FALSE)>>,
           data       |-> <<0, decimals>> \o mint_authority_pubkey \o <<0>>])

\* mint_to with the destination account ahead of the mint
mint_to_destination_first(token_program_id, mint_pubkey, account_pubkey, owner_pubkey, signer_pubkeys, amount) ==
  IF ~check_program_account(token_program_id).ok
  THEN check_program_account(token_program_id)
  ELSE Ok([program_id |-> token_program_id,
           accounts   |-> <<AccountMeta_new(account_pubkey, FALSE),
                            AccountMeta_new(mint_pubkey, FALSE),
                            AccountMeta_new_readonly(owner_pubkey, signer_pubkeys = <<>>)>>
                          \o SignerMetas(signer_pubkeys),
           data       |-> <<7>> \o LeBytes(amount, 8)])

\* spl_token::instruction::mint_to
mint_to(token_program_id, mint_pubkey, account_pubkey, owner_pubkey, signer_pubkeys, amount) ==
  IF ~check_program_account(token_program_id).ok
  THEN check_program_account(token_program_id)
  ELSE Ok([program_id |-> token_program_id,
           accounts   |-> <<AccountMeta_new(mint_pubkey, FALSE),
                            AccountMeta_new(account_pubkey, FALSE),
                            AccountMeta_new_readonly(owner_pubkey, signer_pubkeys = <<>>)>>
                          \o SignerMetas(signer_pubkeys),
           data       |-> <<7>> \o LeBytes(amount, 8)])

\* spl_token::instruction::transfer
token_transfer(token_program_id, source_pubkey, destination_pubkey, authority_pubkey, signer_pubkeys, amount) ==
  IF ~check_program_account(token_program_id).ok
  THEN check_program_account(token_program_id)
  ELSE Ok([program_id |-> token_program_id,
           accounts   |-> <<AccountMeta_new(source_pubkey, FALSE),
                            AccountMeta_new(destination_pubkey, FALSE),
                            AccountMeta_new_readonly(authority_pubkey, signer_pubkeys = <<>>)>>
                          \o SignerMetas(signer_pubkeys),
           data       |-> <<3>> \o LeBytes(amount, 8)])

\* solana_program::system_instruction::transfer
system_transfer(from_pubkey, to_pubkey, lamports) ==
  [program_id |-> system_program_id,
   accounts   |-> <<AccountMeta_new(from_pubkey, TRUE),
                    AccountMeta_new(to_pubkey, FALSE)>>,
   data       |-> LeBytes(2, 4) \o LeBytes(lamports, 8)]

(***************************************************************************)
(* Responses.  A handler yields the HTTP response, the instruction the     *)
(* library constructed while serving the request (NoInstruction if none)   *)
(* and the library routines it invoked, in order.                          *)
(***************************************************************************)
NoInstruction == [program_id |-> <<>>, accounts |-> <<>>, data |-> <<>>]

\* an error body sent without its status code
ErrorReply_status_ok(status, error, invoked) ==
  [resp  |-> [status |-> OK, success |-> FALSE, error |-> error],
   ix    |-> NoInstruction,
   calls |-> invoked]

ErrorReply(status, error, invoked) ==
  [resp  |-> [status |-> status, success |-> FALSE, error |-> error],
   ix    |-> NoInstruction,
   calls |-> invoked]

SuccessReply(data, instruction, invoked) ==
  [resp  |-> [status |-> OK, success |-> TRUE, data |-> data],
   ix    |-> instruction,
   calls |-> invoked]

\* a serialization that reports no account as a signer
AccountsJson_no_signer(accounts) ==
  [i \in 1..Len(accounts) |->
     [pubkey      |-> Pubkey_to_string(accounts[i].pubkey),
      is_signer   |-> FALSE,
      is_writable |-> accounts[i].is_writable]]

\* ix.accounts.iter().map(|acct| json!({pubkey, is_signer, is_writable}))
AccountsJson(accounts) ==
  [i \in 1..Len(accounts) |->
     [pubkey      |-> Pubkey_to_string(accounts[i].pubkey),
      is_signer   |-> accounts[i].is_signer,
      is_writable |-> accounts[i].is_writable]]

\* ix.accounts.iter().map(|acct| acct.pubkey.to_string()): each entry is a
\* bare string, written here as a record with the one field it carries
AccountsStrings(accounts) ==
  [i \in 1..Len(accounts) |-> [pubkey |-> Pubkey_to_string(accounts[i].pubkey)]]

\* TokenResponse { program_id, accounts, instruction_data }
TokenResponse(instruction) ==
  [program_id       |-> Pubkey_to_string(instruction.program_id),
   accounts         |-> AccountsJson(instruction.accounts),
   instruction_data |-> base64_encode(instruction.data)]

\* TransferResponse { program_id, accounts, instruction_data }
TransferResponse(instruction) ==
  [program_id       |-> Pubkey_to_string(instruction.program_id),
   accounts         |-> AccountsStrings(instruction.accounts),
   instruction_data |-> base64_encode(instruction.data)]

\* n address fields were parsed
Parsed(n) == Repeat("Pubkey::from_str", n)

(***************************************************************************)
(* routes/keypair.rs                                                       *)
(***************************************************************************)
\* generate_keypair_internal, seed being what OsRng delivered
generate_keypair_internal(seed) ==
  LET kp == Keypair_generate(seed)
  IN  Ok([pubkey |-> bs58_encode(kp.public),
          secret |-> bs58_encode(Keypair_to_bytes(kp))])

generate_keypair(seed) ==
  LET r == generate_keypair_internal(seed)
  IN  IF r.ok
      THEN SuccessReply(r.val, NoInstruction, <<"Keypair::generate">>)
      ELSE ErrorReply(INTERNAL_SERVER_ERROR, r.err, <<"Keypair::generate">>)

validate_keypair_format(keypair_str) ==
  LET bytes == bs58_decode(keypair_str)
  IN  IF bytes.ok
      THEN IF Len(bytes.val) # KEYPAIR_LENGTH
           THEN Err("Invalid keypair length. Expected 64 bytes.")
           ELSE Ok(TRUE)
      ELSE Err("Invalid base58 encoding")

(***************************************************************************)
(* routes/message.rs                                                       *)
(***************************************************************************)
\* sign_message taking the combined 64-byte form as well as the seed
sign_message_either_length(payload) ==
  IF payload.message = <<>> \/ payload.secret = <<>>
  THEN ErrorReply(BAD_REQUEST, "Missing required fields", <<>>)
  ELSE
  LET secret_bytes == bs58_decode(payload.secret) IN
  IF ~secret_bytes.ok
  THEN ErrorReply(BAD_REQUEST, "Invalid base58 encoding for secret key",
                  <<"bs58::decode">>)
  ELSE IF Len(secret_bytes.val) \notin {SECRET_KEY_LENGTH, KEYPAIR_LENGTH}
  THEN ErrorReply(BAD_REQUEST, "Secret key must be exactly 32 bytes",
                  <<"bs58::decode">>)
  ELSE
  LET kp == Keypair_from_bytes(secret_bytes.val) IN
  IF ~kp.ok
  THEN ErrorReply(BAD_REQUEST, "Invalid secret key: {}",
                  <<"bs58::decode", "Keypair::from_bytes">>)
  ELSE
  LET sig == Keypair_sign(kp.val, payload.message) IN
  SuccessReply([signature  |-> base64_encode(sig),
                public_key |-> bs58_encode(kp.val.public),
                message    |-> payload.message],
               NoInstruction,
               <<"bs58::decode", "Keypair::from_bytes", "Keypair::sign">>)

sign_message(payload) ==
  IF payload.message = <<>> \/ payload.secret = <<>>
  THEN ErrorReply(BAD_REQUEST, "Missing required fields", <<>>)
  ELSE
  LET secret_bytes == bs58_decode(payload.secret) IN
  IF ~secret_bytes.ok
  THEN ErrorReply(BAD_REQUEST, "Invalid base58 encoding for secret key",
                  <<"bs58::decode">>)
  ELSE IF Len(secret_bytes.val) # SECRET_KEY_LENGTH
  THEN ErrorReply(BAD_REQUEST, "Secret key must be exactly 32 bytes",
                  <<"bs58::decode">>)
  ELSE
  LET kp == Keypair_from_bytes(secret_bytes.val) IN
  IF ~kp.ok
  THEN ErrorReply(BAD_REQUEST, "Invalid secret key: {}",
                  <<"bs58::decode", "Keypair::from_bytes">>)
  ELSE
  LET sig == Keypair_sign(kp.val, payload.message) IN
  SuccessReply([signature  |-> base64_encode(sig),
                public_key |-> bs58_encode(kp.val.public),
                message    |-> payload.message],
               NoInstruction,
               <<"bs58::decode", "Keypair::from_bytes", "Keypair::sign">>)

\* verify_message with the signature checked ahead of the public key
verify_message_signature_first(payload) ==
  IF payload.message = <<>> \/ payload.signature = <<>> \/ payload.pubkey = <<>>
  THEN ErrorReply(BAD_REQUEST, "Missing required fields", <<>>)
  ELSE
  LET sig_bytes == base64_decode(payload.signature) IN
  IF ~sig_bytes.ok
  THEN ErrorReply(BAD_REQUEST, "Invalid base64 encoding for signature",
                  <<"base64::decode">>)
  ELSE IF Len(sig_bytes.val) # SIGNATURE_LENGTH
  THEN ErrorReply(BAD_REQUEST, "Signature must be exactly 64 bytes",
                  <<"base64::decode">>)
  ELSE
  LET signature == Signature_from_bytes(sig_bytes.val) IN
  IF ~signature.ok
  THEN ErrorReply(BAD_REQUEST, "Invalid signature: {}",
                  <<"base64::decode", "Signature::from_bytes">>)
  ELSE
  LET pub_bytes == bs58_decode(payload.pubkey) IN
  IF ~pub_bytes.ok
  THEN ErrorReply(BAD_REQUEST, "Invalid base58 encoding for public key",
                  <<"base64::decode", "Signature::from_bytes", "bs58::decode">>)
  ELSE IF Len(pub_bytes.val) # PUBLIC_KEY_LENGTH
  THEN ErrorReply(BAD_REQUEST, "Public key must be exactly 32 bytes",
                  <<"base64::decode", "Signature::from_bytes", "bs58::decode">>)
  ELSE
  LET pubkey == PublicKey_from_bytes(pub_bytes.val) IN
  IF ~pubkey.ok
  THEN ErrorReply(BAD_REQUEST, "Invalid public key: {}",
                  <<"base64::decode", "Signature::from_bytes", "bs58::decode",
                    "PublicKey::from_bytes">>)
  ELSE
  LET valid == PublicKey_verify(pubkey.val, payload.message, signature.val) IN
  SuccessReply([valid   |-> valid,
                message |-> payload.message,
                pubkey  |-> payload.pubkey],
               NoInstruction,
               <<"base64::decode", "Signature::from_bytes", "bs58::decode",
                 "PublicKey::from_bytes", "PublicKey::verify">>)

verify_message(payload) ==
  IF payload.message = <<>> \/ payload.signature = <<>> \/ payload.pubkey = <<>>
  THEN ErrorReply(BAD_REQUEST, "Missing required fields", <<>>)
  ELSE
  LET pub_bytes == bs58_decode(payload.pubkey) IN
  IF ~pub_bytes.ok
  THEN ErrorReply(BAD_REQUEST, "Invalid base58 encoding for public key",
                  <<"bs58::decode">>)
  ELSE IF Len(pub_bytes.val) # PUBLIC_KEY_LENGTH
  THEN ErrorReply(BAD_REQUEST, "Public key must be exactly 32 bytes",
                  <<"bs58::decode">>)
  ELSE
  LET pubkey == PublicKey_from_bytes(pub_bytes.val) IN
  IF ~pubkey.ok
  THEN ErrorReply(BAD_REQUEST, "Invalid public key: {}",
                  <<"bs58::decode", "PublicKey::from_bytes">>)
  ELSE
  LET sig_bytes == base64_decode(payload.signature) IN
  IF ~sig_bytes.ok
  THEN ErrorReply(BAD_REQUEST, "Invalid base64 encoding for signature",
                  <<"bs58::decode", "PublicKey::from_bytes", "base64::decode">>)
  ELSE IF Len(sig_bytes.val) # SIGNATURE_LENGTH
  THEN ErrorReply(BAD_REQUEST, "Signature must be exactly 64 bytes",
                  <<"bs58::decode", "PublicKey::from_bytes", "base64::decode">>)
  ELSE
  LET signature == Signature_from_bytes(sig_bytes.val) IN
  IF ~signature.ok
  THEN ErrorReply(BAD_REQUEST, "Invalid signature: {}",
                  <<"bs58::decode", "PublicKey::from_bytes", "base64::decode",
                    "Signature::from_bytes">>)
  ELSE
  LET valid == PublicKey_verify(pubkey.val, payload.message, signature.val) IN
  SuccessReply([valid   |-> valid,
                message |-> payload.message,
                pubkey  |-> payload.pubkey],
               NoInstruction,
               <<"bs58::decode", "PublicKey::from_bytes", "base64::decode",
                 "Signature::from_bytes", "PublicKey::verify">>)

(***************************************************************************)
(* routes/token.rs.  The messages quote field names with backquotes, which *)
(* are written ' here.                                                     *)
(***************************************************************************)
create_token(payload) ==
  LET mint_pubkey == Pubkey_from_str(payload.mint) IN
  IF ~mint_pubkey.ok
  THEN ErrorReply(BAD_REQUEST, "Invalid 'mint' address", Parsed(1))
  ELSE
  LET authority == Pubkey_from_str(payload.mintAuthority) IN
  IF ~authority.ok
  THEN ErrorReply(BAD_REQUEST, "Invalid 'mintAuthority' address", Parsed(2))
  ELSE
  LET built == initialize_mint(spl_token_id, mint_pubkey.val, authority.val,
                               payload.decimals) IN
  IF ~built.ok
  THEN ErrorReply(INTERNAL_SERVER_ERROR,
                  "Failed to create initialize mint instruction: {}",
                  Parsed(2) \o <<"initialize_mint">>)
  ELSE SuccessReply(TokenResponse(built.val), built.val,
                    Parsed(2) \o <<"initialize_mint">>)

mint_token(payload) ==
  LET mint == Pubkey_from_str(payload.mint) IN
  IF ~mint.ok
  THEN ErrorReply(BAD_REQUEST, "Invalid 'mint' address", Parsed(1))
  ELSE
  LET dest == Pubkey_from_str(payload.destination) IN
  IF ~dest.ok
  THEN ErrorReply(BAD_REQUEST, "Invalid 'destination' address", Parsed(2))
  ELSE
  LET auth == Pubkey_from_str(payload.authority) IN
  IF ~auth.ok
  THEN ErrorReply(BAD_REQUEST, "Invalid 'authority' address", Parsed(3))
  ELSE
  LET built == mint_to(spl_token_id, mint.val, dest.val, auth.val, <<>>,
                       payload.amount) IN
  IF ~built.ok
  THEN ErrorReply(INTERNAL_SERVER_ERROR,
                  "Failed to create mint_to instruction: {}",
                  Parsed(3) \o <<"mint_to">>)
  ELSE SuccessReply(TokenResponse(built.val), built.val,
                    Parsed(3) \o <<"mint_to">>)

(***************************************************************************)
(* routes/transfer.rs                                                      *)
(***************************************************************************)
\* send_sol with the amount validated after the addresses are parsed
send_sol_amount_last(payload) ==
  IF payload.from = <<>> \/ payload.to = <<>>
  THEN ErrorReply(BAD_REQUEST,
                  "Missing required fields: from and to addresses are required",
                  <<>>)
  ELSE
  LET from == Pubkey_from_str(payload.from) IN
  IF ~from.ok
  THEN ErrorReply(BAD_REQUEST, "Invalid 'from' address", Parsed(1))
  ELSE
  LET to == Pubkey_from_str(payload.to) IN
  IF ~to.ok
  THEN ErrorReply(BAD_REQUEST, "Invalid 'to' address", Parsed(2))
  ELSE IF payload.lamports = 0
  THEN ErrorReply(BAD_REQUEST, "Amount must be greater than 0", Parsed(2))
  ELSE
  LET built == system_transfer(from.val, to.val, payload.lamports) IN
  SuccessReply(TransferResponse(built), built,
               Parsed(2) \o <<"system_instruction::transfer">>)

send_sol(payload) ==
  IF payload.from = <<>> \/ payload.to = <<>>
  THEN ErrorReply(BAD_REQUEST,
                  "Missing required fields: from and to addresses are required",
                  <<>>)
  ELSE IF payload.lamports = 0
  THEN ErrorReply(BAD_REQUEST, "Amount must be greater than 0", <<>>)
  ELSE
  LET from == Pubkey_from_str(payload.from) IN
  IF ~from.ok
  THEN ErrorReply(BAD_REQUEST, "Invalid 'from' address", Parsed(1))
  ELSE
  LET to == Pubkey_from_str(payload.to) IN
  IF ~to.ok
  THEN ErrorReply(BAD_REQUEST, "Invalid 'to' address", Parsed(2))
  ELSE
  LET built == system_transfer(from.val, to.val, payload.lamports) IN
  SuccessReply(TransferResponse(built), built,
               Parsed(2) \o <<"system_instruction::transfer">>)

send_token(payload) ==
  IF payload.destination = <<>> \/ payload.mint = <<>> \/ payload.owner = <<>>
  THEN ErrorReply(BAD_REQUEST,
                  "Missing required fields: destination, mint, and owner addresses are required",
                  <<>>)
  ELSE IF payload.amount = 0
  THEN ErrorReply(BAD_REQUEST, "Amount must be greater than 0", <<>>)
  ELSE
  LET dest == Pubkey_from_str(payload.destination) IN
  IF ~dest.ok
  THEN ErrorReply(BAD_REQUEST, "Invalid 'destination' address", Parsed(1))
  ELSE
  LET mint == Pubkey_from_str(payload.mint) IN
  IF ~mint.ok
  THEN ErrorReply(BAD_REQUEST, "Invalid 'mint' address", Parsed(2))
  ELSE
  LET owner == Pubkey_from_str(payload.owner) IN
  IF ~owner.ok
  THEN ErrorReply(BAD_REQUEST, "Invalid 'owner' address", Parsed(3))
  ELSE
  LET built == token_transfer(spl_token_id, mint.val, dest.val, owner.val, <<>>,
                              payload.amount) IN
  IF ~built.ok
  THEN ErrorReply(INTERNAL_SERVER_ERROR,
                  "Failed to create token transfer instruction: {}",
                  Parsed(3) \o <<"token_instruction::transfer">>)
  ELSE SuccessReply(TokenResponse(built.val), built.val,
                    Parsed(3) \o <<"token_instruction::transfer">>)

(***************************************************************************)
(* The requests the model sends.                                           *)
(***************************************************************************)
Keys == 1..NumKeys

Msgs == 1..NumMsgs

\* "0OIl": four characters outside the base-58 alphabet
NOT_BASE58_TEXT == <<48, 79, 73, 108>>

\* "!!!!": four characters outside the base-64 alphabet
NOT_BASE64_TEXT == <<33, 33, 33, 33>>

\* well-formed addresses: the public keys of the table
GoodAddresses == {bs58_encode(PublicTable[k]) : k \in Keys}

\* empty, not base-58, 31 bytes, 33 bytes
BadAddresses ==
  {<<>>,
   NOT_BASE58_TEXT,
   bs58_encode(SubSeq(PublicTable[1], 1, PUBLIC_KEY_LENGTH - 1)),
   bs58_encode(PublicTable[1] \o <<1>>)}

AddressTexts == GoodAddresses \cup BadAddresses

Amounts == 0..MaxAmount

Decimals == {0, 9, 255}

MessageTexts == {<<>>} \cup {MessageTable[m] : m \in Msgs}

\* the seed form, the combined form, and malformed secrets
SecretTexts ==
  {bs58_encode(SeedTable[k]) : k \in Keys}
    \cup {bs58_encode(SeedTable[k] \o PublicTable[k]) : k \in Keys}
    \cup {<<>>, NOT_BASE58_TEXT, bs58_encode(SubSeq(SeedTable[1], 1, SECRET_KEY_LENGTH - 1))}

\* public keys for verification: real keys, a 32-byte string that is no
\* curve point, and malformed ones
PubkeyTexts == AddressTexts \cup {bs58_encode(NotAPoint)}

\* the signature bits the model inverts: the first bit of R, a bit of S, and
\* the three highest bits of S
FlippedBits == {0, 300, 509, 510, 511}

\* a padded base-64 text with its last padding character removed
DropLast(text) == SubSeq(text, 1, Len(text) - 1)

SignatureTexts ==
  {base64_encode(SignatureTable[k][m]) : k \in Keys, m \in Msgs}
    \cup {base64_encode(FlipBit(SignatureTable[1][1], b)) : b \in FlippedBits}
    \cup {<<>>,
          NOT_BASE64_TEXT,
          DropLast(base64_encode(SignatureTable[1][1])),
          base64_encode(SubSeq(SignatureTable[1][1], 1, SIGNATURE_LENGTH - 1))}

(***************************************************************************)
(* State machine.  The server holds no state between requests: a request   *)
(* arrives (pc = "received"), its handler runs (pc = "responded"), and the *)
(* exchange is dropped (pc = "idle").                                      *)
(***************************************************************************)
NoPayload == [empty |-> TRUE]

NoResponse == [status |-> 0, success |-> FALSE, error |-> "none"]

Init ==
  /\ pc = "idle"
  /\ endpoint = "none"
  /\ req = NoPayload
  /\ resp = NoResponse
  /\ ix = NoInstruction
  /\ calls = <<>>

\* the payloads a route is sent
Payloads(route) ==
  CASE route = "/keypair" -> {NoPayload}
    [] route = "/message/sign" ->
         {[message |-> message, secret |-> secret] :
            message \in MessageTexts, secret \in SecretTexts}
    [] route = "/message/verify" ->
         {[message |-> message, signature |-> signature, pubkey |-> pubkey] :
            message \in MessageTexts, signature \in SignatureTexts,
            pubkey \in PubkeyTexts}
    [] route = "/token/create" ->
         {[mintAuthority |-> mintAuthority, mint |-> mint, decimals |-> decimals] :
            mintAuthority \in AddressTexts, mint \in AddressTexts,
            decimals \in Decimals}
    [] route = "/token/mint" ->
         {[mint |-> mint, destination |-> destination, authority |-> authority,
           amount |-> amount] :
            mint \in AddressTexts, destination \in AddressTexts,
            authority \in AddressTexts, amount \in Amounts}
    [] route = "/send/sol" ->
         {[from |-> from, to |-> to, lamports |-> lamports] :
            from \in AddressTexts, to \in AddressTexts, lamports \in Amounts}
    [] route = "/send/token" ->
         {[destination |-> destination, mint |-> mint, owner |-> owner,
           amount |-> amount] :
            destination \in AddressTexts, mint \in AddressTexts,
            owner \in AddressTexts, amount \in Amounts}

\* the routes of main
Routes ==
  {"/keypair", "/token/create", "/token/mint", "/message/sign",
   "/message/verify", "/send/sol", "/send/token"}

\* a request arrives and is routed
Receive ==
  /\ pc = "idle"
  /\ \E route \in Routes : \E payload \in Payloads(route) :
       /\ endpoint' = route
       /\ req' = payload
  /\ pc' = "received"
  /\ UNCHANGED <<resp, ix, calls>>

\* the routed handler runs to its return
Serve(out) ==
  /\ resp' = out.resp
  /\ ix' = out.ix
  /\ calls' = out.calls
  /\ pc' = "responded"
  /\ UNCHANGED <<endpoint, req>>

\* POST /keypair; the entropy source delivers the seed
GenerateKeypair ==
  /\ pc = "received" /\ endpoint = "/keypair"
  /\ \E k \in Keys : Serve(generate_keypair(SeedTable[k]))

\* POST /message/sign
SignMessage ==
  /\ pc = "received" /\ endpoint = "/message/sign"
  /\ Serve(sign_message(req))

\* POST /message/verify
VerifyMessage ==
  /\ pc = "received" /\ endpoint = "/message/verify"
  /\ Serve(verify_message(req))

\* POST /token/create
CreateToken ==
  /\ pc = "received" /\ endpoint = "/token/create"
  /\ Serve(create_token(req))

\* POST /token/mint
MintToken ==
  /\ pc = "received" /\ endpoint = "/token/mint"
  /\ Serve(mint_token(req))

\* POST /send/sol
SendSol ==
  /\ pc = "received" /\ endpoint = "/send/sol"
  /\ Serve(send_sol(req))

\* POST /send/token
SendToken ==
  /\ pc = "received" /\ endpoint = "/send/token"
  /\ Serve(send_token(req))

\* the response is sent; nothing of the exchange is retained
Close ==
  /\ pc = "responded"
  /\ pc' = "idle"
  /\ endpoint' = "none"
  /\ req' = NoPayload
  /\ resp' = NoResponse
  /\ ix' = NoInstruction
  /\ calls' = <<>>

Next ==
  \/ Receive
  \/ GenerateKeypair
  \/ SignMessage
  \/ VerifyMessage
  \/ CreateToken
  \/ MintToken
  \/ SendSol
  \/ SendToken
  \/ Close

Spec == Init /\ [][Next]_vars

(***************************************************************************)
(* Properties.                                                             *)
(***************************************************************************)
\* the handler of `route` has returned
Responded(route) == pc = "responded" /\ endpoint = route

\* text is valid base-58 that decodes to exactly n bytes
DecodesTo(text, n) == bs58_decode(text).ok /\ Len(bs58_decode(text).val) = n

\* the key of the table whose 32-byte seed the text encodes
SeedKeyOf(text) == CHOOSE k \in KeyIndex : bs58_decode(text).val = SeedTable[k]

\* C1: sign_message accepts the 32-byte seed form: a request with a
\* non-empty message and a secret that is valid base-58 decoding to exactly
\* 32 bytes gets HTTP 200 with success = true, the 64-byte signature of the
\* raw message bytes and the public key derived from that seed.
C1_SeedFormAccepted ==
  (/\ Responded("/message/sign")
   /\ req.message # <<>>
   /\ DecodesTo(req.secret, SECRET_KEY_LENGTH))
  => /\ resp.status = OK
     /\ resp.success
     /\ base64_decode(resp.data.signature)
          = Ok(SignatureTable[SeedKeyOf(req.secret)]
                             [CHOOSE m \in MsgIndex : MessageTable[m] = req.message])
     /\ bs58_decode(resp.data.public_key) = Ok(PublicTable[SeedKeyOf(req.secret)])

\* the secrets of the keypairs of the table, in the seed form and in the
\* combined form generate_keypair returns
KeypairSecretTexts ==
  {bs58_encode(SeedTable[k]) : k \in KeyIndex}
    \cup {bs58_encode(SeedTable[k] \o PublicTable[k]) : k \in KeyIndex}

\* C2: sign/verify round trip: sign_message with a keypair's secret and a
\* non-empty message succeeds, and verify_message with the same message, the
\* returned signature and the returned public key answers valid = true.
C2_SignVerifyRoundTrip ==
  (/\ Responded("/message/sign")
   /\ req.message # <<>>
   /\ req.secret \in KeypairSecretTexts)
  => /\ resp.success
     /\ LET verdict == verify_message([message   |-> req.message,
                                       signature |-> resp.data.signature,
                                       pubkey    |-> resp.data.public_key]).resp
        IN  verdict.status = OK /\ verdict.success /\ verdict.data.valid

\* text is valid base-64 that decodes to exactly n bytes
Base64DecodesTo(text, n) ==
  base64_decode(text).ok /\ Len(base64_decode(text).val) = n

\* the request carries the signature some key of the table made of its
\* message, together with that key's public key
Genuine(payload) ==
  \E k \in KeyIndex : \E m \in MsgIndex :
     /\ bs58_decode(payload.pubkey).val = PublicTable[k]
     /\ payload.message = MessageTable[m]
     /\ base64_decode(payload.signature).val = SignatureTable[k][m]

\* the verification call succeeded and reports what Genuine says
VerdictGiven ==
  /\ resp.status = OK
  /\ resp.success
  /\ resp.data.valid \in BOOLEAN
  /\ (~Genuine(req) => resp.data.valid = FALSE)

\* a verify_message request with a non-empty message, a pubkey of 32 bytes
\* and a signature of 64 bytes has been answered
WellSizedVerify ==
  /\ Responded("/message/verify")
  /\ req.message # <<>>
  /\ DecodesTo(req.pubkey, PUBLIC_KEY_LENGTH)
  /\ Base64DecodesTo(req.signature, SIGNATURE_LENGTH)

\* C3 as stated: every verify_message request with a non-empty message, a
\* pubkey decoding to exactly 32 bytes and a signature decoding to exactly 64
\* bytes is answered with success and a boolean valid, false when the
\* signature does not verify; none is answered with an error.
C3_WellSizedNeverAnError == WellSizedVerify => VerdictGiven

\* the primitive's parsers take the decoded key and signature: the 32 bytes
\* are a curve point of the table, the three highest bits of the signature's
\* last byte are clear
AcceptedByPrimitive ==
  /\ \E k \in KeyIndex : bs58_decode(req.pubkey).val = PublicTable[k]
  /\ base64_decode(req.signature).val[SIGNATURE_LENGTH] < 32

\* C3 amended: such a request is answered with success and a boolean valid,
\* false when the signature does not verify, provided the primitive accepts
\* the decoded public key and signature.
C3_FailedVerificationIsNoError ==
  (WellSizedVerify /\ AcceptedByPrimitive) => VerdictGiven

\* C3 witness: a signature with its first bit inverted is answered valid = false
C3_Witness ==
  /\ WellSizedVerify
  /\ AcceptedByPrimitive
  /\ req.message = MessageTable[1]
  /\ bs58_decode(req.pubkey).val = PublicTable[1]
  /\ base64_decode(req.signature).val = FlipBit(SignatureTable[1][1], 0)
  /\ resp.success
  /\ resp.data.valid = FALSE

\* the routines of the ledger libraries that construct an instruction
ConstructionRoutines ==
  {"initialize_mint", "mint_to", "system_instruction::transfer",
   "token_instruction::transfer"}

\* the handler constructed nothing
NothingBuilt ==
  /\ ix = NoInstruction
  /\ \A i \in 1..Len(calls) : calls[i] \notin ConstructionRoutines

\* the answer is the amount error and nothing was constructed
AmountErrorOnly ==
  /\ resp.status = BAD_REQUEST
  /\ ~resp.success
  /\ resp.error = "Amount must be greater than 0"
  /\ NothingBuilt

\* C4 as stated: every send_sol request with lamports = 0 and every
\* send_token request with amount = 0, whatever its address fields contain,
\* gets HTTP 400 "Amount must be greater than 0" and builds no instruction.
C4_ZeroAmountWhateverAddresses ==
  /\ (Responded("/send/sol") /\ req.lamports = 0) => AmountErrorOnly
  /\ (Responded("/send/token") /\ req.amount = 0) => AmountErrorOnly

\* C4 amended: the same, for requests none of whose address fields is empty
\* (an empty address is reported first, as missing fields).
C4_ZeroAmountIsAmountError ==
  /\ (Responded("/send/sol") /\ req.lamports = 0
        /\ req.from # <<>> /\ req.to # <<>>) => AmountErrorOnly
  /\ (Responded("/send/token") /\ req.amount = 0
        /\ req.destination # <<>> /\ req.mint # <<>> /\ req.owner # <<>>)
       => AmountErrorOnly

\* C4 witness: lamports = 0 with a sender that is not base-58
C4_Witness ==
  /\ Responded("/send/sol")
  /\ req.lamports = 0
  /\ req.from = NOT_BASE58_TEXT
  /\ req.to # <<>>
  /\ AmountErrorOnly

\* the account entry of the address a request field holds
Meta(text, signer, writable) ==
  [pubkey |-> bs58_decode(text).val, is_signer |-> signer, is_writable |-> writable]

\* the addresses of the serialized accounts, in order
ResponseAddresses == [i \in 1..Len(resp.data.accounts) |-> resp.data.accounts[i].pubkey]

\* C5: account order and flags of the constructed instruction: create_token
\* emits exactly [mint (writable, non-signer), rent sysvar (read-only,
\* non-signer)], with no entry for the mint authority; mint_token exactly
\* [mint (writable), destination (writable), authority (signer, read-only)];
\* send_sol exactly [from (signer, writable), to (writable, non-signer)]; the
\* addresses are the request's own fields, in that order.
C5_AccountOrderAndFlags ==
  /\ (Responded("/token/create") /\ resp.success) =>
       /\ ix.accounts = <<Meta(req.mint, FALSE, TRUE),
                          Meta(RENT_SYSVAR_TEXT, FALSE, FALSE)>>
       /\ ResponseAddresses = <<req.mint, RENT_SYSVAR_TEXT>>
       /\ (req.mintAuthority # req.mint =>
             \A i \in 1..Len(ix.accounts) :
                ix.accounts[i].pubkey # bs58_decode(req.mintAuthority).val)
  /\ (Responded("/token/mint") /\ resp.success) =>
       /\ ix.accounts = <<Meta(req.mint, FALSE, TRUE),
                          Meta(req.destination, FALSE, TRUE),
                          Meta(req.authority, TRUE, FALSE)>>
       /\ ResponseAddresses = <<req.mint, req.destination, req.authority>>
  /\ (Responded("/send/sol") /\ resp.success) =>
       /\ ix.accounts = <<Meta(req.from, TRUE, TRUE), Meta(req.to, FALSE, TRUE)>>
       /\ ResponseAddresses = <<req.from, req.to>>

\* C5 witness: a mint_token instruction over three different addresses
C5_Witness ==
  /\ Responded("/token/mint")
  /\ resp.success
  /\ req.mint # req.destination
  /\ req.mint # req.authority
  /\ req.destination # req.authority
  /\ Len(ix.accounts) = 3
  /\ ix.accounts[3].is_signer

\* C6: a successful send_token over pairwise distinct destination, mint and
\* owner emits exactly [source (writable, non-signer), destination (writable,
\* non-signer), owner (signer, read-only)], the second and third being the
\* request's destination and owner and the first the token source account,
\* not the request's mint address.
C6_SourceIsNotTheMint ==
  (/\ Responded("/send/token")
   /\ resp.success
   /\ req.destination # req.mint
   /\ req.destination # req.owner
   /\ req.mint # req.owner)
  => /\ Len(ix.accounts) = 3
     /\ ix.accounts[1].is_writable /\ ~ix.accounts[1].is_signer
     /\ ix.accounts[2] = Meta(req.destination, FALSE, TRUE)
     /\ ix.accounts[3] = Meta(req.owner, TRUE, FALSE)
     /\ ix.accounts[1].pubkey # bs58_decode(req.mint).val

\* the routes that build an instruction
BuilderRoutes == {"/token/create", "/token/mint", "/send/sol", "/send/token"}

\* the serialized list has the length and order of the instruction's
SameOrder ==
  /\ Len(resp.data.accounts) = Len(ix.accounts)
  /\ \A i \in 1..Len(ix.accounts) :
       bs58_decode(resp.data.accounts[i].pubkey) = Ok(ix.accounts[i].pubkey)

\* ... and every entry carries the account's two flags unchanged
FlagsCarried ==
  \A i \in 1..Len(ix.accounts) :
     /\ DOMAIN resp.data.accounts[i] = {"pubkey", "is_signer", "is_writable"}
     /\ resp.data.accounts[i].is_signer = ix.accounts[i].is_signer
     /\ resp.data.accounts[i].is_writable = ix.accounts[i].is_writable

\* C7 as stated: for each of the four builders the accounts of a successful
\* response have the length and order of the instruction's account list and
\* carry every account's is_signer and is_writable unchanged.
C7_AllBuildersCarryFlags ==
  (pc = "responded" /\ endpoint \in BuilderRoutes /\ resp.success)
  => (SameOrder /\ FlagsCarried)

\* C7 amended: the length and order are kept by all four builders; the flags
\* are carried by create_token, mint_token and send_token, while send_sol
\* serializes each account as its address alone.
C7_AccountsSerialized ==
  (pc = "responded" /\ endpoint \in BuilderRoutes /\ resp.success)
  => /\ SameOrder
     /\ (endpoint # "/send/sol" => FlagsCarried)
     /\ (endpoint = "/send/sol" =>
           \A i \in 1..Len(ix.accounts) : DOMAIN resp.data.accounts[i] = {"pubkey"})

\* C7 witness: a send_token response whose third account is a signer
C7_Witness ==
  /\ Responded("/send/token")
  /\ resp.success
  /\ Len(resp.data.accounts) = 3
  /\ resp.data.accounts[3].is_signer
  /\ ~resp.data.accounts[1].is_signer

\* the address fields of a builder's request, in the order the handler
\* parses them
AddressFields(route) ==
  CASE route = "/token/create" -> <<"mint", "mintAuthority">>
    [] route = "/token/mint"   -> <<"mint", "destination", "authority">>
    [] route = "/send/sol"     -> <<"from", "to">>
    [] route = "/send/token"   -> <<"destination", "mint", "owner">>

\* not valid base-58, or not 32 bytes
Malformed(text) == ~DecodesTo(text, PUBLIC_KEY_LENGTH)

\* the positions of the malformed address fields of the request
MalformedFields ==
  {i \in 1..Len(AddressFields(endpoint)) : Malformed(req[AddressFields(endpoint)[i]])}

\* the error that names one address field
InvalidAddress(field) == "Invalid '" \o field \o "' address"

\* the error for empty address fields, which lists the route's address fields
MissingFields(route) ==
  IF route = "/send/sol"
  THEN "Missing required fields: from and to addresses are required"
  ELSE "Missing required fields: destination, mint, and owner addresses are required"

\* a builder answered a request with a malformed address field
MalformedAnswered ==
  pc = "responded" /\ endpoint \in BuilderRoutes /\ MalformedFields # {}

\* HTTP 400, and nothing constructed or returned
RejectedUnbuilt ==
  /\ resp.status = BAD_REQUEST
  /\ ~resp.success
  /\ "data" \notin DOMAIN resp
  /\ NothingBuilt

\* C8 as stated: in every builder a malformed address field gets HTTP 400
\* with an error that names that field (the missing-fields error counting as
\* naming the fields it lists), and nothing is constructed or returned.
C8_MalformedAddressNamed ==
  MalformedAnswered =>
    /\ RejectedUnbuilt
    /\ \E i \in MalformedFields :
         \/ resp.error = InvalidAddress(AddressFields(endpoint)[i])
         \/ /\ endpoint \in {"/send/sol", "/send/token"}
            /\ resp.error = MissingFields(endpoint)

\* the amount of a transfer request
TransferAmount == IF endpoint = "/send/sol" THEN req.lamports ELSE req.amount

\* the first failing check of the handler, for a request with a malformed
\* address field
FirstError ==
  IF /\ endpoint \in {"/send/sol", "/send/token"}
     /\ \E i \in 1..Len(AddressFields(endpoint)) : req[AddressFields(endpoint)[i]] = <<>>
  THEN MissingFields(endpoint)
  ELSE IF endpoint \in {"/send/sol", "/send/token"} /\ TransferAmount = 0
  THEN "Amount must be greater than 0"
  ELSE InvalidAddress(AddressFields(endpoint)
                        [CHOOSE i \in MalformedFields : \A j \in MalformedFields : i <= j])

\* C8 amended: in every builder a malformed address field gets HTTP 400, the
\* construction routine is not invoked and no instruction data is returned;
\* the error names the first malformed field in the handler's parse order,
\* except that send_sol and send_token report an empty address as missing
\* fields and a zero amount as the amount error before they parse an address.
C8_MalformedAddressStopsRequest ==
  MalformedAnswered => (RejectedUnbuilt /\ resp.error = FirstError)

\* C8 witness: create_token with a mint that decodes to 31 bytes
C8_Witness ==
  /\ Responded("/token/create")
  /\ bs58_decode(req.mint).ok
  /\ Len(bs58_decode(req.mint).val) = PUBLIC_KEY_LENGTH - 1
  /\ resp.error = "Invalid 'mint' address"
  /\ RejectedUnbuilt

\* errors of the cryptographic primitive rejecting correctly sized bytes
PrimitiveRejections ==
  {"Invalid secret key: {}", "Invalid public key: {}", "Invalid signature: {}"}

\* errors of the instruction-construction routines
ConstructionFailures ==
  {"Failed to create initialize mint instruction: {}",
   "Failed to create mint_to instruction: {}",
   "Failed to create token transfer instruction: {}"}

\* C9 as stated: validation failures return 400, failures of the
\* construction routine and rejections by the primitive of correctly sized
\* bytes return 500; no error carries 200 and no success carries
\* success = false.
C9_PrimitiveRejectionIs500 ==
  pc = "responded" =>
    /\ (resp.status = OK <=> resp.success)
    /\ (~resp.success =>
          IF resp.error \in PrimitiveRejections \cup ConstructionFailures
          THEN resp.status = INTERNAL_SERVER_ERROR
          ELSE resp.status = BAD_REQUEST)

\* C9 amended: validation failures and rejections by the primitive return
\* 400, failures of the construction routine return 500; no error carries 200
\* and no success carries success = false.
C9_ErrorStatus ==
  pc = "responded" =>
    /\ (resp.status = OK <=> resp.success)
    /\ (~resp.success =>
          IF resp.error \in ConstructionFailures
          THEN resp.status = INTERNAL_SERVER_ERROR
          ELSE resp.status = BAD_REQUEST)

\* C9 witness: a 32-byte public key the primitive rejects is answered 400
C9_Witness ==
  /\ Responded("/message/verify")
  /\ DecodesTo(req.pubkey, PUBLIC_KEY_LENGTH)
  /\ resp.error = "Invalid public key: {}"
  /\ resp.status = BAD_REQUEST

\* C10: the secret generate_keypair returns decodes to 64 bytes, private seed
\* then public key, the pubkey decodes to 32 bytes, the public key derived
\* from the seed half is the other half and the returned pubkey, and the
\* secret passes validate_keypair_format.
C10_GeneratedKeypairLayout ==
  Responded("/keypair") =>
    /\ resp.success
    /\ DecodesTo(resp.data.secret, KEYPAIR_LENGTH)
    /\ DecodesTo(resp.data.pubkey, PUBLIC_KEY_LENGTH)
    /\ LET secret == bs58_decode(resp.data.secret).val
           pubkey == bs58_decode(resp.data.pubkey).val
       IN  \E k \in KeyIndex :
             /\ SubSeq(secret, 1, SECRET_KEY_LENGTH) = SeedTable[k]
             /\ SubSeq(secret, SECRET_KEY_LENGTH + 1, KEYPAIR_LENGTH) = PublicTable[k]
             /\ pubkey = PublicTable[k]
    /\ validate_keypair_format(resp.data.secret).ok

\* C10 witness: the keypair of a seed that starts with two zero bytes
C10_Witness ==
  /\ Responded("/keypair")
  /\ resp.success
  /\ SubSeq(bs58_decode(resp.data.secret).val, 1, 2) = <<0, 0>>
  /\ bs58_decode(resp.data.pubkey).val = PublicTable[2]

\* the validation failures of verify_message, in the order of its checks
VerifyFailures ==
  <<"Missing required fields",
    "Invalid base58 encoding for public key",
    "Public key must be exactly 32 bytes",
    "Invalid public key: {}",
    "Invalid base64 encoding for signature",
    "Signature must be exactly 64 bytes",
    "Invalid signature: {}">>

\* whether the request fails the i-th check, taken alone
FailsVerifyCheck(i) ==
  CASE i = 1 -> req.message = <<>> \/ req.signature = <<>> \/ req.pubkey = <<>>
    [] i = 2 -> ~bs58_decode(req.pubkey).ok
    [] i = 3 -> bs58_decode(req.pubkey).ok
                 /\ Len(bs58_decode(req.pubkey).val) # PUBLIC_KEY_LENGTH
    [] i = 4 -> DecodesTo(req.pubkey, PUBLIC_KEY_LENGTH)
                 /\ \A k \in KeyIndex : bs58_decode(req.pubkey).val # PublicTable[k]
    [] i = 5 -> ~base64_decode(req.signature).ok
    [] i = 6 -> base64_decode(req.signature).ok
                 /\ Len(base64_decode(req.signature).val) # SIGNATURE_LENGTH
    [] i = 7 -> Base64DecodesTo(req.signature, SIGNATURE_LENGTH)
                 /\ base64_decode(req.signature).val[SIGNATURE_LENGTH] >= 32

\* the checks the request fails
FailedVerifyChecks == {i \in 1..Len(VerifyFailures) : FailsVerifyCheck(i)}

\* a malformed verify_message request has been answered
MalformedVerify == Responded("/message/verify") /\ FailedVerifyChecks # {}

\* both the pubkey and the signature of the request are malformed, and no
\* field is missing
BothMalformed ==
  /\ 1 \notin FailedVerifyChecks
  /\ FailedVerifyChecks \cap {2, 3, 4} # {}
  /\ FailedVerifyChecks \cap {5, 6, 7} # {}

\* C11: verify_message answers a malformed request with exactly one
\* validation failure, the failures of the seven checks being pairwise
\* distinct and the one returned being that of the first check the request
\* fails in the order missing field, pubkey base-58, pubkey length, pubkey
\* acceptance, signature base-64, signature length, signature acceptance; so
\* when pubkey and signature are both malformed the pubkey's error is
\* returned; the verification primitive is not run and no valid flag is
\* returned.
C11_FirstFailedCheckReported ==
  /\ \A i, j \in 1..Len(VerifyFailures) :
        i # j => VerifyFailures[i] # VerifyFailures[j]
  /\ MalformedVerify =>
       /\ resp.status = BAD_REQUEST
       /\ ~resp.success
       /\ resp.error
            = VerifyFailures[CHOOSE i \in FailedVerifyChecks :
                                \A j \in FailedVerifyChecks : i <= j]
       /\ (BothMalformed => resp.error \in {VerifyFailures[2], VerifyFailures[3],
                                            VerifyFailures[4]})
       /\ "data" \notin DOMAIN resp
       /\ \A i \in 1..Len(calls) : calls[i] # "PublicKey::verify"

\* C11 witness: a pubkey of 31 bytes with a signature that is not base-64 is
\* answered with the public-key length error
C11_Witness ==
  /\ MalformedVerify
  /\ BothMalformed
  /\ FailedVerifyChecks = {3, 5}
  /\ resp.error = "Public key must be exactly 32 bytes"

\* the reply of sign_message is the secret-length error, and no signature
\* was made
LengthRejected(out) ==
  /\ out.resp.status = BAD_REQUEST
  /\ ~out.resp.success
  /\ out.resp.error = "Secret key must be exactly 32 bytes"
  /\ "data" \notin DOMAIN out.resp
  /\ \A i \in 1..Len(out.calls) : out.calls[i] # "Keypair::sign"

\* the secret of the request is base-58 that decodes to other than 32 bytes
WrongLengthSecret ==
  bs58_decode(req.secret).ok /\ Len(bs58_decode(req.secret).val) # SECRET_KEY_LENGTH

\* C12 as stated: sign_message answers every secret whose base-58 decoding
\* is not exactly 32 bytes with HTTP 400 "Secret key must be exactly 32 bytes"
\* and no signature, and the secret generate_keypair returns, passed on
\* unchanged, is always answered so.
C12_WrongLengthAlwaysLengthError ==
  /\ (Responded("/message/sign") /\ WrongLengthSecret)
       => LengthRejected([resp |-> resp, calls |-> calls])
  /\ (Responded("/keypair") /\ resp.success)
       => \A message \in MessageTexts :
            LengthRejected(sign_message([message |-> message,
                                         secret  |-> resp.data.secret]))

\* C12 amended: the same for requests whose message and secret are both
\* non-empty; an empty message or an empty secret is answered with the
\* missing-fields error instead.
C12_WrongLengthSecretRejected ==
  /\ (/\ Responded("/message/sign")
      /\ req.message # <<>>
      /\ req.secret # <<>>
      /\ WrongLengthSecret)
       => LengthRejected([resp |-> resp, calls |-> calls])
  /\ (Responded("/keypair") /\ resp.success)
       => /\ DecodesTo(resp.data.secret, KEYPAIR_LENGTH)
          /\ \A message \in MessageTexts \ {<<>>} :
               LengthRejected(sign_message([message |-> message,
                                            secret  |-> resp.data.secret]))

\* C12 witness: the combined 64-byte secret of a keypair is answered with
\* the length error
C12_Witness ==
  /\ Responded("/message/sign")
  /\ req.message # <<>>
  /\ bs58_decode(req.secret) = Ok(SeedTable[1] \o PublicTable[1])
  /\ LengthRejected([resp |-> resp, calls |-> calls])

====
